---- MODULE Spec2Model ----
(***************************************************************************)
(* Model of the cloud storage tiering service (src/src/storage_service.py). *)
(*                                                                         *)
(* Every request handler is an `async def` coroutine running on the one    *)
(* event loop of the application.  run_tiering, download_file,             *)
(* delete_file, get_file_metadata and update_last_accessed contain no      *)
(* `await`, and upload_file awaits only before it touches shared state, so *)
(* each handler's effect on files_metadata / files_content is one atomic   *)
(* step; concurrent requests are serialised in some order.  Each handler   *)
(* is therefore one action.                                                *)
(*                                                                         *)
(* Time: datetime.utcnow() is modelled by the variable `now`, counted in   *)
(* ticks of 1/TicksPerDay day, so that timedelta.days (whole days,         *)
(* rounded toward minus infinity) is a real truncation.  A handler reads   *)
(* the clock once: the microseconds that elapse inside one handler are     *)
(* not modelled.                                                           *)
(*                                                                         *)
(* Strings are sequences of one-character strings; str.upper, `in` and     *)
(* str.startswith are computed on them.                                    *)
(***************************************************************************)
EXTENDS Integers, Sequences, FiniteSets, TLC

VARIABLES files_metadata, files_content, now, response, passes, fault, uploading

vars == <<files_metadata, files_content, now, response, passes, fault, uploading>>

(***************************************************************************)
(* Bounds of the model.                                                    *)
(***************************************************************************)
\* the clock runs from 0 to MaxTicks ticks
MaxTicks == 1
\* at most MaxPasses tiering passes in a row without another request
MaxPasses == 3
\* ticks per day of the model clock
TicksPerDay == 2
\* at most MaxUploading uploads are between their await and their return
MaxUploading == 2

\* uuid4 values available to upload_file.  A uuid is only a name, so the
\* ids are named by their place in the registry: a new key of the dict
\* files_metadata comes after the keys it holds (insertion order), and it
\* gets the name that follows theirs in IdOrder (the first name when the
\* dict is empty)
FileIds == {"id1", "id2"}
IdOrder == <<"id1", "id2">>
rank(file_id) == CHOOSE i \in 1..Len(IdOrder) : IdOrder[i] = file_id
\* an id that may be the id of a stored object
is_next_id_reused(file_id, registry) == file_id \in FileIds

is_next_id(file_id, registry) ==
  /\ file_id \notin DOMAIN registry
  /\ \A f \in DOMAIN registry : rank(f) < rank(file_id)
  /\ \A g \in FileIds :
       rank(g) < rank(file_id) => \E f \in DOMAIN registry : rank(g) <= rank(f)
\* days_ago values sent to update_last_accessed
DaysAgo == {30, 130}
\* the registry of the one-object specification, and its days_ago values
OneFileId == {"id1"}
DaysAgoAll == {29, 30, 89, 90, 130, 150, 180, 181}

None == "None"

(***************************************************************************)
(* Strings.                                                                *)
(***************************************************************************)
LowerChars == <<"a", "c", "e", "f", "g", "i", "l", "o", "p", "r", "t", "x", "y">>
UpperChars == <<"A", "C", "E", "F", "G", "I", "L", "O", "P", "R", "T", "X", "Y">>

\* str.upper() on one character: lower-case letters are mapped, the rest kept
upper_char(c) ==
  IF \E i \in 1..Len(LowerChars) : LowerChars[i] = c
  THEN UpperChars[CHOOSE i \in 1..Len(LowerChars) : LowerChars[i] = c]
  ELSE c

\* str.upper()
upper(s) == [i \in 1..Len(s) |-> upper_char(s[i])]

\* `sub in s` for strings
contains(sub, s) ==
  \E i \in 0..(Len(s) - Len(sub)) : SubSeq(s, i + 1, i + Len(sub)) = sub

\* s.startswith(prefix)
startswith(s, prefix) ==
  /\ Len(s) >= Len(prefix)
  /\ SubSeq(s, 1, Len(prefix)) = prefix

PRIORITY_MARKER == <<"_", "P", "R", "I", "O", "R", "I", "T", "Y", "_">>
LEGAL_PREFIX == <<"L", "E", "G", "A", "L", "_">>

\* file names sent to upload_file
NamePlain == <<"t", ".", "t", "x", "t">>
NameLegal == <<"L", "e", "g", "a", "l", "_", "c">>
NamePriority == <<"r", "_", "p", "r", "i", "o", "r", "i", "t", "y", "_", "f">>
NameLegalPriority == <<"L", "E", "G", "A", "L", "_", "_", "P", "R", "I", "O", "R", "I", "T", "Y", "_">>
NameInnerLegal == <<"x", "_", "L", "E", "G", "A", "L", "_", "c">>

Filenames == {NamePlain, NameLegal, NamePriority}
\* the file names of the one-object specifications
FilenamesAll == Filenames \cup {NameLegalPriority, NameInnerLegal}

(***************************************************************************)
(* Data model.                                                             *)
(***************************************************************************)
HOT == "HOT"
WARM == "WARM"
COLD == "COLD"

StorageTier == {HOT, WARM, COLD}

\* len(content) in bytes is kib * 1024 + rem with 0 <= rem < 1024 (10 GB in
\* bytes does not fit the checker's integers)
Bytes(kib, rem) == [kib |-> kib, rem |-> rem]

\* a < b on byte counts
less(a, b) == a.kib < b.kib \/ (a.kib = b.kib /\ a.rem < b.rem)

MinSize == Bytes(1024, 0)
MaxSize == Bytes(10 * 1024 * 1024, 0)

\* content lengths sent to upload_file: 1 MB - 1, 1 MB, 10 GB + 1
Sizes == {Bytes(1023, 1023), Bytes(1024, 0), Bytes(10 * 1024 * 1024, 1)}

\* the dict {"invalid": "data"} that takes the place of a record when the
\* metadata is corrupted
CorruptMetadata == [invalid |-> "data"]

\* FileMetadata(...) as built by upload_file; etag and content_type are
\* never read by the tiering logic and are left out
\* a record created in WARM
FileMetadata_warm(file_id, filename, size, t) ==
  [file_id |-> file_id, filename |-> filename, size |-> size, tier |-> WARM,
   created_at |-> t, last_accessed |-> t]

FileMetadata(file_id, filename, size, t) ==
  [file_id |-> file_id, filename |-> filename, size |-> size, tier |-> HOT,
   created_at |-> t, last_accessed |-> t]

\* an optional integer is << >> (Python's None) or <<n>>
\* TIER_CONFIG with HOT demoted straight to COLD
TIER_CONFIG_skip ==
  [t \in StorageTier |->
     CASE t = HOT  -> [max_age_days |-> <<30>>, next_tier |-> COLD]
       [] t = WARM -> [max_age_days |-> <<90>>, next_tier |-> COLD]
       [] t = COLD -> [max_age_days |-> << >>, next_tier |-> None]]

\* TIER_CONFIG with the retention period of 180 days as the WARM threshold
TIER_CONFIG_warm180 ==
  [t \in StorageTier |->
     CASE t = HOT  -> [max_age_days |-> <<30>>, next_tier |-> WARM]
       [] t = WARM -> [max_age_days |-> <<180>>, next_tier |-> COLD]
       [] t = COLD -> [max_age_days |-> << >>, next_tier |-> None]]

\* TIER_CONFIG with HOT demoted at any age
TIER_CONFIG_hot0 ==
  [t \in StorageTier |->
     CASE t = HOT  -> [max_age_days |-> <<0>>, next_tier |-> WARM]
       [] t = WARM -> [max_age_days |-> <<90>>, next_tier |-> COLD]
       [] t = COLD -> [max_age_days |-> << >>, next_tier |-> None]]

TIER_CONFIG ==
  [t \in StorageTier |->
     CASE t = HOT  -> [max_age_days |-> <<30>>, next_tier |-> WARM]
       [] t = WARM -> [max_age_days |-> <<90>>, next_tier |-> COLD]
       [] t = COLD -> [max_age_days |-> << >>, next_tier |-> None]]

\* (current_time - last_accessed).days
days_between(current_time, last_accessed) ==
  (current_time - last_accessed) \div TicksPerDay

\* datetime.utcnow() - timedelta(days=days_ago)
days_before(t, days_ago) == t - days_ago * TicksPerDay

(***************************************************************************)
(* Rule set.                                                               *)
(***************************************************************************)
\* apply_special_rules comparing the name without upper()
apply_special_rules_case_sensitive(file_metadata, utcnow) ==
  IF contains(PRIORITY_MARKER, file_metadata.filename)
  THEN HOT
  ELSE IF /\ startswith(file_metadata.filename, LEGAL_PREFIX)
          /\ file_metadata.tier = WARM
          /\ days_between(utcnow, file_metadata.last_accessed) <= 180
       THEN WARM
       ELSE None

\* apply_special_rules with `< 180` for the retention period
apply_special_rules_strict(file_metadata, utcnow) ==
  IF contains(PRIORITY_MARKER, upper(file_metadata.filename))
  THEN HOT
  ELSE IF /\ startswith(upper(file_metadata.filename), LEGAL_PREFIX)
          /\ file_metadata.tier = WARM
          /\ days_between(utcnow, file_metadata.last_accessed) < 180
       THEN WARM
       ELSE None

\* apply_special_rules with the retention rule tried before the priority pin
apply_special_rules_legal_first(file_metadata, utcnow) ==
  IF /\ startswith(upper(file_metadata.filename), LEGAL_PREFIX)
     /\ file_metadata.tier = WARM
     /\ days_between(utcnow, file_metadata.last_accessed) <= 180
  THEN WARM
  ELSE IF contains(PRIORITY_MARKER, upper(file_metadata.filename))
       THEN HOT
       ELSE None

\* apply_special_rules without the test that the object is in WARM
apply_special_rules_any_tier(file_metadata, utcnow) ==
  IF contains(PRIORITY_MARKER, upper(file_metadata.filename))
  THEN HOT
  ELSE IF /\ startswith(upper(file_metadata.filename), LEGAL_PREFIX)
          /\ days_between(utcnow, file_metadata.last_accessed) <= 180
       THEN WARM
       ELSE None

\* apply_special_rules whose retention rule sends the object back to HOT
apply_special_rules_legal_hot(file_metadata, utcnow) ==
  IF contains(PRIORITY_MARKER, upper(file_metadata.filename))
  THEN HOT
  ELSE IF /\ startswith(upper(file_metadata.filename), LEGAL_PREFIX)
          /\ file_metadata.tier = WARM
          /\ days_between(utcnow, file_metadata.last_accessed) <= 180
       THEN HOT
       ELSE None

apply_special_rules(file_metadata, utcnow) ==
  IF contains(PRIORITY_MARKER, upper(file_metadata.filename))
  THEN HOT
  ELSE IF /\ startswith(upper(file_metadata.filename), LEGAL_PREFIX)
          /\ file_metadata.tier = WARM
          /\ days_between(utcnow, file_metadata.last_accessed) <= 180
       THEN WARM
       ELSE None

(***************************************************************************)
(* Tiering engine.                                                         *)
(***************************************************************************)
\* one iteration of the loop of run_tiering: the record after it and the
\* increment of moved_count
\* tiering_step with `>` for the age threshold
tiering_step_gt(metadata, current_time) ==
  LET forced_tier == apply_special_rules(metadata, current_time)
      config == TIER_CONFIG[metadata.tier]
  IN IF forced_tier # None
     THEN IF metadata.tier # forced_tier
          THEN [meta |-> [metadata EXCEPT !.tier = forced_tier], moved |-> 1]
          ELSE [meta |-> metadata, moved |-> 0]
     ELSE IF metadata.tier = COLD
     THEN [meta |-> metadata, moved |-> 0]
     ELSE IF /\ config.max_age_days # << >>
             /\ days_between(current_time, metadata.last_accessed) > config.max_age_days[1]
             /\ config.next_tier # None
          THEN [meta |-> [metadata EXCEPT !.tier = config.next_tier], moved |-> 1]
          ELSE [meta |-> metadata, moved |-> 0]

\* tiering_step that counts a forced tier as a move even when it is the
\* tier the object already has
tiering_step_overcount(metadata, current_time) ==
  LET forced_tier == apply_special_rules(metadata, current_time)
      config == TIER_CONFIG[metadata.tier]
  IN IF forced_tier # None
     THEN [meta |-> [metadata EXCEPT !.tier = forced_tier], moved |-> 1]
     ELSE IF metadata.tier = COLD
     THEN [meta |-> metadata, moved |-> 0]
     ELSE IF /\ config.max_age_days # << >>
             /\ days_between(current_time, metadata.last_accessed) >= config.max_age_days[1]
             /\ config.next_tier # None
          THEN [meta |-> [metadata EXCEPT !.tier = config.next_tier], moved |-> 1]
          ELSE [meta |-> metadata, moved |-> 0]

\* tiering_step that does not count a move of the generic schedule
tiering_step_generic_uncounted(metadata, current_time) ==
  LET forced_tier == apply_special_rules(metadata, current_time)
      config == TIER_CONFIG[metadata.tier]
  IN IF forced_tier # None
     THEN IF metadata.tier # forced_tier
          THEN [meta |-> [metadata EXCEPT !.tier = forced_tier], moved |-> 1]
          ELSE [meta |-> metadata, moved |-> 0]
     ELSE IF metadata.tier = COLD
     THEN [meta |-> metadata, moved |-> 0]
     ELSE IF /\ config.max_age_days # << >>
             /\ days_between(current_time, metadata.last_accessed) >= config.max_age_days[1]
             /\ config.next_tier # None
          THEN [meta |-> [metadata EXCEPT !.tier = config.next_tier], moved |-> 0]
          ELSE [meta |-> metadata, moved |-> 0]

tiering_step(metadata, current_time) ==
  LET forced_tier == apply_special_rules(metadata, current_time)
      config == TIER_CONFIG[metadata.tier]
  IN IF forced_tier # None
     THEN IF metadata.tier # forced_tier
          THEN [meta |-> [metadata EXCEPT !.tier = forced_tier], moved |-> 1]
          ELSE [meta |-> metadata, moved |-> 0]
     ELSE IF metadata.tier = COLD
     THEN [meta |-> metadata, moved |-> 0]
     ELSE IF /\ config.max_age_days # << >>
             /\ days_between(current_time, metadata.last_accessed) >= config.max_age_days[1]
             /\ config.next_tier # None
          THEN [meta |-> [metadata EXCEPT !.tier = config.next_tier], moved |-> 1]
          ELSE [meta |-> metadata, moved |-> 0]

\* a loop that evaluates the first record of the registry and stops
tiering_loop_first_only(todo, registry, moved_count, current_time) ==
  IF todo = {}
  THEN [registry |-> registry, moved_count |-> moved_count, raised |-> FALSE]
  ELSE LET file_id == CHOOSE f \in todo : \A g \in todo : rank(f) <= rank(g)
       IN IF registry[file_id] = CorruptMetadata
          THEN [registry |-> registry, moved_count |-> moved_count, raised |-> TRUE]
          ELSE LET r == tiering_step(registry[file_id], current_time)
               IN [registry |-> [registry EXCEPT ![file_id] = r.meta],
                   moved_count |-> moved_count + r.moved, raised |-> FALSE]

\* the loop of run_tiering over list(files_metadata.items()), in the order
\* of the dict.  A value that is not a FileMetadata has no attribute
\* `filename`: apply_special_rules raises AttributeError on it, nothing
\* catches it, and the loop ends there with the records before it already
\* written
RECURSIVE tiering_loop(_, _, _, _)
tiering_loop(todo, registry, moved_count, current_time) ==
  IF todo = {}
  THEN [registry |-> registry, moved_count |-> moved_count, raised |-> FALSE]
  ELSE LET file_id == CHOOSE f \in todo : \A g \in todo : rank(f) <= rank(g)
       IN IF registry[file_id] = CorruptMetadata
          THEN [registry |-> registry, moved_count |-> moved_count, raised |-> TRUE]
          ELSE LET r == tiering_step(registry[file_id], current_time)
               IN tiering_loop(todo \ {file_id},
                               [registry EXCEPT ![file_id] = r.meta],
                               moved_count + r.moved,
                               current_time)

(***************************************************************************)
(* Responses.                                                              *)
(***************************************************************************)
\* a response: the handler, the HTTP status, and of the body the file id,
\* files_moved and, in result, what else the properties read
Response(op, status, file_id, files_moved) ==
  [op |-> op, status |-> status, file_id |-> file_id, files_moved |-> files_moved,
   result |-> None]

\* the tier of a registry value, None for a value that is not a FileMetadata
tier_of(metadata) == IF metadata = CorruptMetadata THEN None ELSE metadata.tier

\* the tiers of all records, as a pass finds them
TierSnapshot ==
  [at |-> now, tiers |-> [f \in DOMAIN files_metadata |-> tier_of(files_metadata[f])]]

(***************************************************************************)
(* Initial state: empty registry and byte store (module import).           *)
(***************************************************************************)
Init ==
  /\ files_metadata = << >>
  /\ files_content = << >>
  /\ now = 0
  /\ response = Response("none", 0, None, 0)
  /\ passes = << >>
  /\ fault = None
  /\ uploading = << >>

(***************************************************************************)
(* Handlers.                                                               *)
(***************************************************************************)
\* a pop that leaves the key in the dict
pop_keep(d, k) == d

\* remove a key from a dict
pop(d, k) == [f \in DOMAIN d \ {k} |-> d[f]]

\* d[k] = v
setitem(d, k, v) == [f \in DOMAIN d \cup {k} |-> IF f = k THEN v ELSE d[f]]

\* upload_store with `<=` for the minimum size
upload_store_min_exclusive(file_id, filename, size) ==
  /\ is_next_id(file_id, files_metadata)
  /\ passes' = << >>
  /\ now' = now
  /\ fault' = fault
  /\ IF less(size, MinSize) \/ size = MinSize \/ less(MaxSize, size)
     THEN /\ response' = Response("upload_file", 400, None, 0)
          /\ UNCHANGED <<files_metadata, files_content>>
     ELSE /\ files_metadata' = setitem(files_metadata, file_id,
                                       FileMetadata(file_id, filename, size, now))
          /\ files_content' = setitem(files_content, file_id, size)
          /\ response' = Response("upload_file", 201, file_id, 0)

\* the body of upload_file after `await file.read()`.  When the store named
\* by `fault` fails, its assignment raises, nothing catches it, and the
\* statements after it are not run
upload_store(file_id, filename, size) ==
  /\ is_next_id(file_id, files_metadata)
  /\ passes' = << >>
  /\ now' = now
  /\ fault' = fault
  /\ IF less(size, MinSize) \/ less(MaxSize, size)
     THEN /\ response' = Response("upload_file", 400, None, 0)
          /\ UNCHANGED <<files_metadata, files_content>>
     ELSE IF fault = "files_metadata"
     THEN /\ response' = Response("upload_file", 500, None, 0)
          /\ UNCHANGED <<files_metadata, files_content>>
     ELSE IF fault = "files_content"
     THEN /\ files_metadata' = setitem(files_metadata, file_id,
                                       FileMetadata(file_id, filename, size, now))
          /\ response' = Response("upload_file", 500, None, 0)
          /\ UNCHANGED files_content
     ELSE /\ files_metadata' = setitem(files_metadata, file_id,
                                       FileMetadata(file_id, filename, size, now))
          /\ files_content' = setitem(files_content, file_id, size)
          /\ response' = Response("upload_file", 201, file_id, 0)

\* an upload with no other request between its await and its return
upload_file(file_id, filename, size) ==
  /\ upload_store(file_id, filename, size)
  /\ UNCHANGED uploading

\* download_file that returns the content without writing last_accessed
download_file_no_touch(file_id) ==
  /\ passes' = << >>
  /\ now' = now
  /\ UNCHANGED <<fault, uploading>>
  /\ IF file_id \notin DOMAIN files_metadata
     THEN /\ response' = Response("download_file", 404, file_id, 0)
          /\ UNCHANGED <<files_metadata, files_content>>
     ELSE /\ response' = Response("download_file", 200, file_id, 0)
          /\ UNCHANGED <<files_metadata, files_content>>

\* download_file that also promotes the accessed object to HOT
download_file_promote(file_id) ==
  /\ passes' = << >>
  /\ now' = now
  /\ UNCHANGED <<fault, uploading>>
  /\ IF file_id \notin DOMAIN files_metadata
     THEN /\ response' = Response("download_file", 404, file_id, 0)
          /\ UNCHANGED <<files_metadata, files_content>>
     ELSE /\ files_metadata' = [files_metadata EXCEPT ![file_id].last_accessed = now,
                                                      ![file_id].tier = HOT]
          /\ response' = Response("download_file", 200, file_id, 0)
          /\ UNCHANGED files_content

download_file(file_id) ==
  /\ passes' = << >>
  /\ now' = now
  /\ UNCHANGED <<fault, uploading>>
  /\ IF file_id \notin DOMAIN files_metadata
     THEN /\ response' = Response("download_file", 404, file_id, 0)
          /\ UNCHANGED <<files_metadata, files_content>>
     ELSE IF files_metadata[file_id] = CorruptMetadata
     THEN /\ response' = Response("download_file", 500, file_id, 0)
          /\ UNCHANGED <<files_metadata, files_content>>
     ELSE /\ files_metadata' = [files_metadata EXCEPT ![file_id].last_accessed = now]
          /\ response' = Response("download_file", 200, file_id, 0)
          /\ UNCHANGED files_content

\* get_file_metadata that counts as an access
get_file_metadata_touch(file_id) ==
  /\ passes' = << >>
  /\ UNCHANGED <<files_content, now, fault, uploading>>
  /\ IF file_id \notin DOMAIN files_metadata
     THEN /\ response' = Response("get_file_metadata", 404, file_id, 0)
          /\ UNCHANGED files_metadata
     ELSE IF files_metadata[file_id] = CorruptMetadata
     THEN /\ response' = Response("get_file_metadata", 500, file_id, 0)
          /\ UNCHANGED files_metadata
     ELSE /\ files_metadata' = [files_metadata EXCEPT ![file_id].last_accessed = now]
          /\ response' = Response("get_file_metadata", 200, file_id, 0)

\* get_file_metadata without the validation of response_model=FileMetadata
get_file_metadata_unvalidated(file_id) ==
  /\ passes' = << >>
  /\ response' = IF file_id \notin DOMAIN files_metadata
                 THEN Response("get_file_metadata", 404, file_id, 0)
                 ELSE Response("get_file_metadata", 200, file_id, 0)
  /\ UNCHANGED <<files_metadata, files_content, now, fault, uploading>>

get_file_metadata(file_id) ==
  /\ passes' = << >>
  /\ response' = IF file_id \notin DOMAIN files_metadata
                 THEN Response("get_file_metadata", 404, file_id, 0)
                 ELSE IF files_metadata[file_id] = CorruptMetadata
                 THEN Response("get_file_metadata", 500, file_id, 0)
                 ELSE Response("get_file_metadata", 200, file_id, 0)
  /\ UNCHANGED <<files_metadata, files_content, now, fault, uploading>>

\* delete_file that removes the metadata and leaves the bytes
delete_file_keep_content(file_id) ==
  /\ passes' = << >>
  /\ now' = now
  /\ UNCHANGED <<fault, uploading>>
  /\ IF file_id \notin DOMAIN files_metadata
     THEN /\ response' = Response("delete_file", 404, file_id, 0)
          /\ UNCHANGED <<files_metadata, files_content>>
     ELSE /\ files_metadata' = pop(files_metadata, file_id)
          /\ response' = Response("delete_file", 204, file_id, 0)
          /\ UNCHANGED files_content

\* delete_file without the test for an unknown id: pop(file_id, None)
\* answers 204 whether or not the id is there
delete_file_no_check(file_id) ==
  /\ passes' = << >>
  /\ now' = now
  /\ UNCHANGED <<fault, uploading>>
  /\ files_metadata' = pop(files_metadata, file_id)
  /\ files_content' = pop(files_content, file_id)
  /\ response' = Response("delete_file", 204, file_id, 0)

delete_file(file_id) ==
  /\ passes' = << >>
  /\ now' = now
  /\ UNCHANGED <<fault, uploading>>
  /\ IF file_id \notin DOMAIN files_metadata
     THEN /\ response' = Response("delete_file", 404, file_id, 0)
          /\ UNCHANGED <<files_metadata, files_content>>
     ELSE /\ files_metadata' = pop(files_metadata, file_id)
          /\ files_content' = pop(files_content, file_id)
          /\ response' = Response("delete_file", 204, file_id, 0)

run_tiering ==
  /\ Len(passes) < MaxPasses
  /\ LET r == tiering_loop(DOMAIN files_metadata, files_metadata, 0, now)
     IN /\ files_metadata' = r.registry
        /\ response' = IF r.raised
                       THEN Response("run_tiering", 500, None, 0)
                       ELSE [Response("run_tiering", 200, None, r.moved_count)
                               EXCEPT !.result = "success"]
  /\ passes' = Append(passes, TierSnapshot)
  /\ UNCHANGED <<files_content, now, fault, uploading>>

\* update_last_accessed that puts the record back in HOT
update_last_accessed_promote(file_id, days_ago) ==
  /\ passes' = << >>
  /\ now' = now
  /\ UNCHANGED <<fault, uploading>>
  /\ IF file_id \notin DOMAIN files_metadata
     THEN /\ response' = Response("update_last_accessed", 404, file_id, 0)
          /\ UNCHANGED <<files_metadata, files_content>>
     ELSE IF files_metadata[file_id] = CorruptMetadata
     THEN /\ response' = Response("update_last_accessed", 500, file_id, 0)
          /\ UNCHANGED <<files_metadata, files_content>>
     ELSE /\ files_metadata' =
               [files_metadata EXCEPT ![file_id].last_accessed = days_before(now, days_ago),
                                      ![file_id].tier = HOT]
          /\ response' = [Response("update_last_accessed", 200, file_id, 0)
                            EXCEPT !.result = "success"]
          /\ UNCHANGED files_content

update_last_accessed(file_id, days_ago) ==
  /\ passes' = << >>
  /\ now' = now
  /\ UNCHANGED <<fault, uploading>>
  /\ IF file_id \notin DOMAIN files_metadata
     THEN /\ response' = Response("update_last_accessed", 404, file_id, 0)
          /\ UNCHANGED <<files_metadata, files_content>>
     ELSE IF files_metadata[file_id] = CorruptMetadata
     THEN /\ response' = Response("update_last_accessed", 500, file_id, 0)
          /\ UNCHANGED <<files_metadata, files_content>>
     ELSE /\ files_metadata' =
               [files_metadata EXCEPT ![file_id].last_accessed = days_before(now, days_ago)]
          /\ response' = [Response("update_last_accessed", 200, file_id, 0)
                            EXCEPT !.result = "success"]
          /\ UNCHANGED files_content

\* a + b on byte counts
plus(a, b) ==
  [kib |-> a.kib + b.kib + ((a.rem + b.rem) \div 1024), rem |-> (a.rem + b.rem) % 1024]

\* sum(m.size for m in values)
RECURSIVE sum_size(_, _)
sum_size(todo, registry) ==
  IF todo = {}
  THEN Bytes(0, 0)
  ELSE LET f == CHOOSE g \in todo : TRUE
       IN plus(registry[f].size, sum_size(todo \ {f}, registry))

\* the body of the stats response; m.size and metadata.tier raise
\* AttributeError on a value that is not a FileMetadata
get_stats ==
  /\ passes' = << >>
  /\ response' =
       IF \E f \in DOMAIN files_metadata : files_metadata[f] = CorruptMetadata
       THEN Response("get_stats", 500, None, 0)
       ELSE [Response("get_stats", 200, None, 0) EXCEPT !.result =
               [total_files |-> Cardinality(DOMAIN files_metadata),
                total_size |-> sum_size(DOMAIN files_metadata, files_metadata),
                tiers |-> [t \in StorageTier |->
                   LET in_tier == {f \in DOMAIN files_metadata : files_metadata[f].tier = t}
                   IN [count |-> Cardinality(in_tier),
                       size |-> sum_size(in_tier, files_metadata)]]]]
  /\ UNCHANGED <<files_metadata, files_content, now, fault, uploading>>

\* the wall clock advances
Tick ==
  /\ now < MaxTicks
  /\ now' = now + 1
  /\ UNCHANGED <<files_metadata, files_content, response, passes, fault, uploading>>

Next ==
  \/ \E file_id \in FileIds, filename \in Filenames, size \in Sizes :
       upload_file(file_id, filename, size)
  \/ \E file_id \in FileIds : download_file(file_id)
  \/ \E file_id \in FileIds : get_file_metadata(file_id)
  \/ \E file_id \in FileIds : delete_file(file_id)
  \/ run_tiering
  \/ \E file_id \in FileIds, days_ago \in DaysAgo : update_last_accessed(file_id, days_ago)
  \/ get_stats
  \/ Tick

Spec == Init /\ [][Next]_vars

(***************************************************************************)
(* The service with one object and the full set of ages.                   *)
(***************************************************************************)
NextOne ==
  \/ \E file_id \in OneFileId, filename \in FilenamesAll, size \in Sizes :
       upload_file(file_id, filename, size)
  \/ \E file_id \in OneFileId : download_file(file_id)
  \/ \E file_id \in OneFileId : get_file_metadata(file_id)
  \/ \E file_id \in OneFileId : delete_file(file_id)
  \/ run_tiering
  \/ \E file_id \in OneFileId, days_ago \in DaysAgoAll : update_last_accessed(file_id, days_ago)
  \/ Tick

SpecOne == Init /\ [][NextOne]_vars

(***************************************************************************)
(* The rule set and the engine as functions of one record: the registry    *)
(* starts with one record of any name, tier and age (the module-level      *)
(* dict is assigned directly, as tests/fault_injection does), and the      *)
(* rules are evaluated and passes are run on it.                           *)
(***************************************************************************)
InitEngine ==
  /\ \E filename \in FilenamesAll, tier \in StorageTier, days_ago \in DaysAgoAll \cup {0} :
       files_metadata =
         [f \in OneFileId |->
            [FileMetadata(f, filename, MinSize, 0)
               EXCEPT !.tier = tier, !.last_accessed = days_before(0, days_ago)]]
  /\ files_content = [f \in OneFileId |-> MinSize]
  /\ now = 0
  /\ response = Response("none", 0, None, 0)
  /\ passes = << >>
  /\ fault = None
  /\ uploading = << >>

\* one call of apply_special_rules, its return value kept in response
evaluate_rules(file_id) ==
  /\ file_id \in DOMAIN files_metadata
  /\ response' = [Response("apply_special_rules", 0, file_id, 0)
                    EXCEPT !.result = apply_special_rules(files_metadata[file_id], now)]
  /\ passes' = << >>
  /\ UNCHANGED <<files_metadata, files_content, now, fault, uploading>>

NextEngine ==
  \/ \E file_id \in OneFileId : evaluate_rules(file_id)
  \/ run_tiering
  \/ Tick

SpecEngine == InitEngine /\ [][NextEngine]_vars

(***************************************************************************)
(* The service under fault injection (tests/fault_injection): a store      *)
(* whose __setitem__ is made to raise, and a registry value replaced by a  *)
(* dict that is not a FileMetadata.                                        *)
(***************************************************************************)
\* the stores whose assignment can be made to fail
Stores == {"files_content", "files_metadata"}
\* the file names sent to upload_file under fault injection and concurrency
FilenamesPlain == {NamePlain}
\* and the days_ago values sent to update_last_accessed there
DaysAgoFew == {30}
\* and the content lengths: 1 MB - 1, 1 MB
SizesFew == {Bytes(1023, 1023), Bytes(1024, 0)}

\* patch('src.storage_service.<store>.__setitem__', side_effect=Exception(...)):
\* from here on every `<store>[key] = value` raises
patch_setitem(store) ==
  /\ fault = None
  /\ fault' = store
  /\ passes' = << >>
  /\ UNCHANGED <<files_metadata, files_content, now, response, uploading>>

\* the end of the `with patch(...)` block
unpatch ==
  /\ fault # None
  /\ fault' = None
  /\ passes' = << >>
  /\ UNCHANGED <<files_metadata, files_content, now, response, uploading>>

\* src.storage_service.files_metadata[file_id] = {"invalid": "data"}
corrupt_metadata(file_id) ==
  /\ file_id \in DOMAIN files_metadata
  /\ fault # "files_metadata"
  /\ files_metadata' = [files_metadata EXCEPT ![file_id] = CorruptMetadata]
  /\ passes' = << >>
  /\ UNCHANGED <<files_content, now, response, fault, uploading>>

NextFault ==
  \/ \E file_id \in FileIds, filename \in FilenamesPlain, size \in Sizes :
       upload_file(file_id, filename, size)
  \/ \E file_id \in FileIds : download_file(file_id)
  \/ \E file_id \in FileIds : get_file_metadata(file_id)
  \/ \E file_id \in FileIds : delete_file(file_id)
  \/ run_tiering
  \/ \E file_id \in FileIds, days_ago \in DaysAgoFew : update_last_accessed(file_id, days_ago)
  \/ get_stats
  \/ \E store \in Stores : patch_setitem(store)
  \/ unpatch
  \/ \E file_id \in FileIds : corrupt_metadata(file_id)
  \/ Tick

SpecFault == Init /\ [][NextFault]_vars

(***************************************************************************)
(* The service with uploads in flight.  upload_file suspends once, at      *)
(* `await file.read()`, before it reads or writes the stores; the other    *)
(* handlers run between that await and the rest of the upload.  The uuid   *)
(* drawn before the await is seen by nobody until the record is stored,    *)
(* so it is named when the upload resumes.                                 *)
(***************************************************************************)
\* s without its i-th element
remove_at(s, i) == SubSeq(s, 1, i - 1) \o SubSeq(s, i + 1, Len(s))

\* upload_file up to `await file.read()`
upload_begin(filename, size) ==
  /\ Len(uploading) < MaxUploading
  /\ uploading' = Append(uploading, [filename |-> filename, size |-> size])
  /\ UNCHANGED <<files_metadata, files_content, now, response, passes, fault>>

\* upload_file from `await file.read()` to its return
upload_finish(i, file_id) ==
  /\ i \in 1..Len(uploading)
  /\ upload_store(file_id, uploading[i].filename, uploading[i].size)
  /\ uploading' = remove_at(uploading, i)

NextConcurrent ==
  \/ \E filename \in FilenamesPlain, size \in SizesFew : upload_begin(filename, size)
  \/ \E i \in 1..MaxUploading, file_id \in FileIds : upload_finish(i, file_id)
  \/ \E file_id \in FileIds : download_file(file_id)
  \/ \E file_id \in FileIds : get_file_metadata(file_id)
  \/ \E file_id \in FileIds : delete_file(file_id)
  \/ run_tiering
  \/ \E file_id \in FileIds, days_ago \in DaysAgoFew : update_last_accessed(file_id, days_ago)
  \/ get_stats
  \/ Tick

SpecConcurrent == Init /\ [][NextConcurrent]_vars

(***************************************************************************)
(* Vocabulary of the properties.                                           *)
(***************************************************************************)
\* the names that carry the priority marker / the retention-class prefix
PriorityNames == {NamePriority, NameLegalPriority}
RetentionNames == {NameLegal, NameLegalPriority}

Rank(tier) == CASE tier = HOT -> 0 [] tier = WARM -> 1 [] tier = COLD -> 2

\* the passes run in a row since the last other request
PassIndex == 1..Len(passes)

\* tier of f before / after the k-th of these passes
Before(k, f) == passes[k].tiers[f]
After(k, f) == IF k < Len(passes) THEN passes[k + 1].tiers[f] ELSE files_metadata[f].tier

\* whole days since last access of f at the k-th pass (last_accessed is
\* not written between the passes)
AgeAt(k, f) == days_between(passes[k].at, files_metadata[f].last_accessed)

Name(f) == files_metadata[f].filename

\* no override rule matches f at the k-th pass
NoOverride(k, f) ==
  /\ Name(f) \notin PriorityNames
  /\ ~(Name(f) \in RetentionNames /\ Before(k, f) = WARM /\ AgeAt(k, f) <= 180)

(***************************************************************************)
(* C1  Monotonic single-step demotion: an object that matches no override  *)
(* rule moves at most one step along HOT -> WARM -> COLD in one pass, and   *)
(* never toward HOT.                                                       *)
(***************************************************************************)
C1_SingleStepDemotion ==
  \A k \in PassIndex : \A f \in DOMAIN files_metadata :
    NoOverride(k, f) => Rank(After(k, f)) - Rank(Before(k, f)) \in {0, 1}

\* a HOT object of 90 days or more was moved by a pass, to WARM
C1_Witness ==
  \E k \in PassIndex : \E f \in DOMAIN files_metadata :
    /\ NoOverride(k, f)
    /\ Before(k, f) = HOT
    /\ AgeAt(k, f) >= 90
    /\ After(k, f) = WARM

(***************************************************************************)
(* C5  Convergence needs two passes: an object without override name, HOT  *)
(* and last accessed 130 days ago, is WARM after the first pass and COLD   *)
(* after the second.                                                       *)
(***************************************************************************)
C5_TwoPassesToCold ==
  \A k \in PassIndex : \A f \in DOMAIN files_metadata :
    (/\ Name(f) \notin PriorityNames \cup RetentionNames
     /\ Before(k, f) = HOT
     /\ AgeAt(k, f) = 130)
    => /\ After(k, f) = WARM
       /\ k < Len(passes) => After(k + 1, f) = COLD

\* the object went HOT -> WARM -> COLD in two passes
C5_Witness ==
  \E k \in PassIndex : \E f \in DOMAIN files_metadata :
    /\ Name(f) \notin PriorityNames \cup RetentionNames
    /\ Before(k, f) = HOT
    /\ AgeAt(k, f) = 130
    /\ After(k, f) = WARM
    /\ k < Len(passes)
    /\ After(k + 1, f) = COLD

(***************************************************************************)
(* C2  Idempotence under a fixed clock.                                    *)
(***************************************************************************)
\* the last two requests were passes, with no clock tick between them
TwoPassesFixedClock ==
  /\ Len(passes) >= 2
  /\ passes[Len(passes) - 1].at = passes[Len(passes)].at

\* the objects the first of the two passes moved HOT -> WARM although they
\* are old enough to leave WARM: no priority name, 90 days or more, and
\* more than 180 days when the name is of the retention class
StillDue ==
  {f \in DOMAIN files_metadata :
     /\ Before(Len(passes) - 1, f) = HOT
     /\ Name(f) \notin PriorityNames
     /\ AgeAt(Len(passes), f) >= 90
     /\ Name(f) \in RetentionNames => AgeAt(Len(passes), f) > 180}

\* C2 as stated: of two passes run in a row under a fixed clock, the second
\* moves 0 objects and changes no tier
C2_SecondPassMovesNothing ==
  TwoPassesFixedClock =>
    /\ response.files_moved = 0
    /\ \A f \in DOMAIN files_metadata :
         After(Len(passes), f) = Before(Len(passes), f)

\* C2 amended: of two passes run in a row under a fixed clock, the second
\* moves exactly the objects that the first moved from HOT to WARM and that
\* are due to leave WARM, each of them to COLD, and nothing else
C2_SecondPassMovesStillDue ==
  TwoPassesFixedClock =>
    /\ response.files_moved = Cardinality(StillDue)
    /\ \A f \in DOMAIN files_metadata :
         IF f \in StillDue
         THEN Before(Len(passes), f) = WARM /\ After(Len(passes), f) = COLD
         ELSE After(Len(passes), f) = Before(Len(passes), f)

\* the second of two passes in a row under a fixed clock moved an object
\* that the first had moved from HOT to WARM
C2_Witness ==
  /\ TwoPassesFixedClock
  /\ response.files_moved >= 1
  /\ StillDue # {}

(***************************************************************************)
(* C3  Override precedence: an object whose name contains the priority     *)
(* marker, in any letter case, is HOT after every pass, whatever its age   *)
(* and whatever its tier before the pass.                                  *)
(***************************************************************************)
C3_PriorityHotAfterPass ==
  \A k \in PassIndex : \A f \in DOMAIN files_metadata :
    Name(f) \in PriorityNames => After(k, f) = HOT

\* a pass found a priority object in WARM or COLD and left it in HOT
C3_Witness ==
  \E k \in PassIndex : \E f \in DOMAIN files_metadata :
    /\ Name(f) = NamePriority
    /\ Before(k, f) \in {WARM, COLD}
    /\ AgeAt(k, f) >= 90
    /\ After(k, f) = HOT

(***************************************************************************)
(* C4  Retention suppression boundary: a retention-class object without    *)
(* priority marker that is in WARM stays in WARM, and is not counted as    *)
(* moved, when its age is at most 180 days, and goes to COLD when its age  *)
(* is 181 days or more.                                                    *)
(***************************************************************************)
C4_RetentionBoundary ==
  \A k \in PassIndex : \A f \in DOMAIN files_metadata :
    (Name(f) \in RetentionNames \ PriorityNames /\ Before(k, f) = WARM)
    => /\ AgeAt(k, f) <= 180 => After(k, f) = WARM
       /\ AgeAt(k, f) >= 181 => After(k, f) = COLD
       /\ (k = Len(passes) /\ DOMAIN files_metadata = {f})
            => response.files_moved = IF AgeAt(k, f) <= 180 THEN 0 ELSE 1

\* a pass left a retention-class object of exactly 180 days in WARM
C4_Witness ==
  \E k \in PassIndex : \E f \in DOMAIN files_metadata :
    /\ Name(f) = NameLegal
    /\ Before(k, f) = WARM
    /\ AgeAt(k, f) = 180
    /\ After(k, f) = WARM
    /\ response.files_moved = 0

(***************************************************************************)
(* C6  Generic schedule: an object with no applicable override goes        *)
(* HOT -> WARM exactly when its age is >= 30 whole days, WARM -> COLD       *)
(* exactly when its age is >= 90 whole days, and keeps its tier otherwise. *)
(***************************************************************************)
C6_GenericSchedule ==
  \A k \in PassIndex : \A f \in DOMAIN files_metadata :
    NoOverride(k, f) =>
      After(k, f) = IF Before(k, f) = HOT /\ AgeAt(k, f) >= 30 THEN WARM
                    ELSE IF Before(k, f) = WARM /\ AgeAt(k, f) >= 90 THEN COLD
                    ELSE Before(k, f)

\* a pass moved a HOT object of exactly 30 whole days to WARM
C6_Witness ==
  \E k \in PassIndex : \E f \in DOMAIN files_metadata :
    /\ NoOverride(k, f)
    /\ Before(k, f) = HOT
    /\ AgeAt(k, f) = 30
    /\ After(k, f) = WARM

(***************************************************************************)
(* C7  Touch versus pass: when a download of an object and a tiering pass  *)
(* run one right after the other, in either order, the record keeps both   *)
(* writes.  Download then pass: the pass leaves the last_accessed written  *)
(* by the download and the tier is the one the pass decides for a just     *)
(* accessed object (HOT for a priority name, the tier before otherwise).   *)
(* Pass then download: the download leaves the tier the pass wrote and     *)
(* sets last_accessed to the time of the download.                         *)
(***************************************************************************)
DownloadThenPass(f) ==
  /\ response.op = "download_file" /\ response.status = 200 /\ response.file_id = f
  /\ response'.op = "run_tiering"

PassThenDownload(f) ==
  /\ response.op = "run_tiering"
  /\ response'.op = "download_file" /\ response'.status = 200 /\ response'.file_id = f

C7_TouchVersusPass ==
  [][\A f \in DOMAIN files_metadata :
       /\ DownloadThenPass(f) =>
            /\ files_metadata'[f].last_accessed = files_metadata[f].last_accessed
            /\ files_metadata'[f].tier =
                 IF Name(f) \in PriorityNames THEN HOT ELSE files_metadata[f].tier
       /\ PassThenDownload(f) =>
            /\ files_metadata'[f].tier = files_metadata[f].tier
            /\ files_metadata'[f].tier \in StorageTier
            /\ files_metadata'[f].last_accessed = now']_vars

\* a pass ran right after the download of a WARM object: the record has the
\* access time of the download and the tier the pass left
C7_Witness ==
  /\ Len(passes) = 1
  /\ \E f \in DOMAIN files_metadata :
       /\ Before(1, f) = WARM
       /\ files_metadata[f].last_accessed = passes[1].at
       /\ files_metadata[f].tier = WARM

(***************************************************************************)
(* C8  COLD is terminal absent an override: no request moves a record      *)
(* without priority marker out of COLD.                                    *)
(***************************************************************************)
C8_ColdIsTerminal ==
  [][\A f \in DOMAIN files_metadata \cap DOMAIN files_metadata' :
       (files_metadata[f].tier = COLD /\ Name(f) \notin PriorityNames)
       => files_metadata'[f].tier = COLD]_vars

\* a pass ran over a COLD record that has since been accessed, and left it
\* in COLD
C8_Witness ==
  \E k \in PassIndex : \E f \in DOMAIN files_metadata :
    /\ Name(f) \notin PriorityNames
    /\ Before(k, f) = COLD
    /\ AgeAt(k, f) = 0
    /\ After(k, f) = COLD

(***************************************************************************)
(* C9  First match wins: for a name that has both the retention-class      *)
(* prefix and the priority marker the rules return HOT in every tier and   *)
(* at every age.                                                           *)
(***************************************************************************)
C9_PriorityBeforeRetention ==
  (/\ response.op = "apply_special_rules"
   /\ Name(response.file_id) \in PriorityNames \cap RetentionNames)
  => response.result = HOT

\* the rules were evaluated on such an object in WARM within the retention
\* period
C9_Witness ==
  /\ response.op = "apply_special_rules"
  /\ Name(response.file_id) = NameLegalPriority
  /\ files_metadata[response.file_id].tier = WARM
  /\ days_between(now, files_metadata[response.file_id].last_accessed) = 150
  /\ response.result = HOT

(***************************************************************************)
(* C10  The retention rule applies only in WARM: a retention-class object  *)
(* without priority marker that is in HOT or COLD follows the generic      *)
(* gets no forced tier from the rules and follows the generic schedule     *)
(* (HOT -> WARM at 30 days or more, COLD stays COLD).                       *)
(***************************************************************************)
\* the record of f as the k-th pass found it
RecordAt(k, f) == [files_metadata[f] EXCEPT !.tier = Before(k, f)]

C10_RetentionOnlyInWarm ==
  \A k \in PassIndex : \A f \in DOMAIN files_metadata :
    (Name(f) \in RetentionNames \ PriorityNames /\ Before(k, f) \in {HOT, COLD})
    => /\ apply_special_rules(RecordAt(k, f), passes[k].at) = None
       /\ After(k, f) = IF Before(k, f) = HOT /\ AgeAt(k, f) >= 30 THEN WARM
                        ELSE Before(k, f)

\* a pass left a retention-class object in HOT at 29 days
C10_Witness ==
  \E k \in PassIndex : \E f \in DOMAIN files_metadata :
    /\ Name(f) = NameLegal
    /\ Before(k, f) = HOT
    /\ AgeAt(k, f) = 29
    /\ After(k, f) = HOT

(***************************************************************************)
(* Vocabulary of the properties under fault injection.                     *)
(***************************************************************************)
\* the last pass of the passes run in a row
LastPass == Len(passes)

\* tier of f after the k-th pass, None for a value that is not a record
AfterTier(k, f) ==
  IF k < Len(passes) THEN passes[k + 1].tiers[f] ELSE tier_of(files_metadata[f])

\* the ids whose value was not a record when the last pass ran
CorruptAtLastPass == {f \in DOMAIN files_metadata : Before(LastPass, f) = None}

(***************************************************************************)
(* C11  Per-record error isolation: a record that cannot be evaluated is   *)
(* skipped; the pass goes on over the other records, applies their         *)
(* transitions and returns success with the number of records moved.       *)
(***************************************************************************)
C11_CorruptRecordSkipped ==
  (passes # << >> /\ CorruptAtLastPass # {})
  => /\ response.status = 200
     /\ response.result = "success"
     /\ \A f \in DOMAIN files_metadata \ CorruptAtLastPass :
          AfterTier(LastPass, f) =
            tiering_step([files_metadata[f] EXCEPT !.tier = Before(LastPass, f)],
                         passes[LastPass].at).meta.tier
     /\ response.files_moved =
          Cardinality({f \in DOMAIN files_metadata \ CorruptAtLastPass :
                         AfterTier(LastPass, f) # Before(LastPass, f)})

(***************************************************************************)
(* C12  No orphans: the ids with a metadata record are the ids with stored *)
(* bytes; a successful delete removes both, and a metadata read of an id   *)
(* without record is NotFound.                                             *)
(***************************************************************************)
C12_NoOrphans ==
  /\ DOMAIN files_metadata = DOMAIN files_content
  /\ (response.op = "delete_file" /\ response.status = 204)
       => response.file_id \notin DOMAIN files_metadata \cup DOMAIN files_content
  /\ (response.op = "get_file_metadata" /\ response.file_id \notin DOMAIN files_metadata)
       => response.status = 404

\* the first object was deleted while a later one is stored, and a metadata
\* read of the deleted id was answered NotFound
C12_Witness ==
  /\ DOMAIN files_metadata = {"id2"}
  /\ DOMAIN files_content = {"id2"}
  /\ response.op = "get_file_metadata"
  /\ response.file_id = "id1"
  /\ response.status = 404

(***************************************************************************)
(* C13  Upload atomicity under storage failure: when storing the bytes     *)
(* fails, the upload reports an error and no metadata record of the object *)
(* remains.                                                                *)
(***************************************************************************)
C13_FailedUploadLeavesNoRecord ==
  [][\A file_id \in FileIds, filename \in FilenamesPlain :
       (fault = "files_content" /\ upload_file(file_id, filename, Bytes(1024, 0)))
       => /\ response'.status = 500
          /\ file_id \notin DOMAIN files_metadata'
          /\ Cardinality(DOMAIN files_metadata') = Cardinality(DOMAIN files_metadata)]_vars

(***************************************************************************)
(* C14  Upload size validation: content below 1 MB or above 10 GB is       *)
(* rejected with status 400 and both stores stay as they were; content of  *)
(* exactly 1 MB is accepted.                                               *)
(***************************************************************************)
C14_SizeValidation ==
  [][response'.op = "upload_file" =>
     \A file_id \in FileIds, filename \in Filenames :
       /\ \A size \in {Bytes(1023, 1023), Bytes(10 * 1024 * 1024, 1)} :
            upload_file(file_id, filename, size)
            => /\ response'.status = 400
               /\ UNCHANGED <<files_metadata, files_content>>
       /\ upload_file(file_id, filename, Bytes(1024, 0))
            => /\ response'.status = 201
               /\ file_id \in DOMAIN files_metadata'
               /\ files_metadata'[file_id].size = Bytes(1024, 0)
               /\ files_content'[file_id] = Bytes(1024, 0)]_vars

\* an upload was rejected while an object of exactly 1 MB is stored
C14_Witness ==
  /\ response.op = "upload_file"
  /\ response.status = 400
  /\ \E f \in DOMAIN files_metadata : files_metadata[f].size = Bytes(1024, 0)

(***************************************************************************)
(* C15  NotFound on unknown id: download, metadata read, delete and        *)
(* set-last-accessed of an id without record answer 404 and leave both     *)
(* stores unchanged.                                                       *)
(***************************************************************************)
C15_NotFound ==
  [][\A file_id \in FileIds \ DOMAIN files_metadata :
       (/\ response'.file_id = file_id
        /\ \/ download_file(file_id)
           \/ get_file_metadata(file_id)
           \/ delete_file(file_id)
           \/ \E days_ago \in DaysAgo : update_last_accessed(file_id, days_ago))
       => /\ response'.status = 404
          /\ UNCHANGED <<files_metadata, files_content>>]_vars

\* a delete of an id that had been deleted before was answered NotFound
C15_Witness ==
  /\ DOMAIN files_metadata = {"id2"}
  /\ response.op = "delete_file"
  /\ response.file_id = "id1"
  /\ response.status = 404

(***************************************************************************)
(* C16  Metadata-only reads do not count as access: get_file_metadata and  *)
(* get_stats leave every field of every record unchanged; a download of an *)
(* existing id sets last_accessed of that record to now and changes        *)
(* nothing else.                                                           *)
(***************************************************************************)
C16_ReadsDoNotTouch ==
  [][/\ (/\ response'.op \in {"get_stats", "get_file_metadata"}
         /\ (get_stats \/ \E f \in FileIds : get_file_metadata(f)))
          => UNCHANGED <<files_metadata, files_content>>
     /\ \A f \in DOMAIN files_metadata :
          (response'.op = "download_file" /\ download_file(f))
          => /\ response'.status = 200
             /\ files_metadata' = [files_metadata EXCEPT ![f].last_accessed = now']
             /\ files_content' = files_content]_vars

\* the metadata of a backdated object was read, and its last access is
\* still the backdated one
C16_Witness ==
  /\ response.op = "get_file_metadata"
  /\ response.status = 200
  /\ days_between(now, files_metadata[response.file_id].last_accessed) = 130
  /\ files_metadata[response.file_id].created_at = 0

(***************************************************************************)
(* C17  Resting tier after two passes: an object that is HOT, matches no   *)
(* override and is not accessed again is, after two passes run in a row,   *)
(* in WARM when its age is at least 30 and below 90 days, and in COLD when *)
(* its age is 90 days or more, whatever else is in the registry.           *)
(***************************************************************************)
C17_RestingTier ==
  Len(passes) >= 2 =>
    \A f \in DOMAIN files_metadata :
      LET first == Len(passes) - 1
          second == Len(passes)
      IN (/\ Before(first, f) = HOT
          /\ NoOverride(first, f)
          /\ NoOverride(second, f))
         => /\ (AgeAt(first, f) >= 30 /\ AgeAt(second, f) < 90)
                 => After(second, f) = WARM
            /\ AgeAt(first, f) >= 90 => After(second, f) = COLD

\* two passes in a row took two HOT objects of one registry, one of 30 days
\* and one of 130 days, to WARM and to COLD
C17_Witness ==
  /\ Len(passes) = 2
  /\ \E f, g \in DOMAIN files_metadata :
       /\ Name(f) = NamePlain /\ Name(g) = NamePlain
       /\ Before(1, f) = HOT /\ Before(1, g) = HOT
       /\ AgeAt(1, f) = 30 /\ AgeAt(1, g) = 130
       /\ After(2, f) = WARM
       /\ After(2, g) = COLD

(***************************************************************************)
(* C18  Create concurrent with a pass is safe: a pass that runs while an   *)
(* upload is in flight completes without error, evaluates every record of  *)
(* the registry and leaves the pending upload out; the upload that then    *)
(* completes creates its record in HOT and leaves the other records as the *)
(* pass left them.                                                         *)
(***************************************************************************)
C18_UploadDuringPass ==
  [][/\ (uploading # << >> /\ response'.op = "run_tiering" /\ run_tiering)
          => /\ response'.status = 200
             /\ uploading' = uploading
             /\ DOMAIN files_metadata' = DOMAIN files_metadata
             /\ \A f \in DOMAIN files_metadata :
                  files_metadata'[f] = tiering_step(files_metadata[f], now).meta
     /\ \A i \in 1..Len(uploading), file_id \in FileIds :
          (/\ uploading[i].size = Bytes(1024, 0)
           /\ response'.op = "upload_file"
           /\ upload_finish(i, file_id))
          => /\ response'.status = 201
             /\ DOMAIN files_metadata' = DOMAIN files_metadata \cup {file_id}
             /\ files_metadata'[file_id].tier = HOT
             /\ \A f \in DOMAIN files_metadata : files_metadata'[f] = files_metadata[f]]_vars

\* a pass moved a record while an upload was in flight
C18_Witness ==
  /\ uploading # << >>
  /\ response.op = "run_tiering"
  /\ response.status = 200
  /\ response.files_moved = 1
  /\ \E f \in DOMAIN files_metadata : Before(LastPass, f) = HOT /\ files_metadata[f].tier = WARM

(***************************************************************************)
(* C19  Record count conservation, stated step by step: a successful       *)
(* upload adds one record, also when other uploads are in flight, a        *)
(* successful delete removes one, every other request leaves the number of *)
(* records as it is, and get_stats reports that number.                    *)
(***************************************************************************)
C19_CountConservation ==
  [][LET before == Cardinality(DOMAIN files_metadata)
         after == Cardinality(DOMAIN files_metadata')
         uploaded == /\ response'.status = 201
                     /\ \E i \in 1..Len(uploading), file_id \in FileIds :
                          upload_finish(i, file_id)
         deleted == /\ response'.status = 204
                    /\ \E file_id \in FileIds : delete_file(file_id)
     IN /\ uploaded => after = before + 1
        /\ deleted => after = before - 1
        /\ ~(uploaded \/ deleted) => after = before
        /\ (response'.op = "get_stats" /\ get_stats)
             => response'.result.total_files = after]_vars

\* get_stats reported two records, created at the same reading of the clock
C19_Witness ==
  /\ response.op = "get_stats"
  /\ response.status = 200
  /\ response.result.total_files = 2
  /\ files_metadata["id1"].created_at = files_metadata["id2"].created_at

(***************************************************************************)
(* C20  Failure while moving records during a pass: with the metadata      *)
(* store's write failing, a pass answers 200 with status "partial_success" *)
(* and every record keeps the tier it had before the pass.                 *)
(***************************************************************************)
C20_PartialSuccess ==
  (passes # << >> /\ fault = "files_metadata")
  => /\ response.status = 200
     /\ response.result = "partial_success"
     /\ \A f \in DOMAIN files_metadata : AfterTier(LastPass, f) = Before(LastPass, f)

(***************************************************************************)
(* C21  Corrupt record on direct read.                                     *)
(***************************************************************************)
\* a metadata read of f, whose stored value is not a record
CorruptRead(f) ==
  /\ files_metadata[f] = CorruptMetadata
  /\ response'.op = "get_file_metadata"
  /\ get_file_metadata(f)

\* C21 as stated: a metadata read of an id whose stored value is not a
\* record is answered as NotFound, and the registry is unchanged
C21_CorruptReadIsNotFound ==
  [][\A f \in DOMAIN files_metadata :
       CorruptRead(f) => /\ response'.status = 404
                         /\ UNCHANGED <<files_metadata, files_content>>]_vars

\* C21 amended: a metadata read of an id whose stored value is not a record
\* is answered with the server error 500, not with the 404 of an unknown id
\* and never with a success, and the registry is unchanged
C21_CorruptReadIsServerError ==
  [][\A f \in DOMAIN files_metadata :
       CorruptRead(f) => /\ response'.status = 500
                         /\ UNCHANGED <<files_metadata, files_content>>]_vars

\* the read of a corrupt value was answered 500 while another record is
\* intact in the registry
C21_Witness ==
  /\ response.op = "get_file_metadata"
  /\ response.status = 500
  /\ response.file_id \in DOMAIN files_metadata
  /\ files_metadata[response.file_id] = CorruptMetadata
  /\ \E g \in DOMAIN files_metadata : files_metadata[g] # CorruptMetadata

(***************************************************************************)
(* C22  Moved count is exact: the count a pass returns is the number of    *)
(* records whose tier after the pass differs from their tier before it; a  *)
(* forced tier equal to the current tier counts for nothing, and the count *)
(* is between 0 and the number of records.                                 *)
(***************************************************************************)
\* the records the last pass moved
MovedByLastPass ==
  {f \in DOMAIN files_metadata : After(LastPass, f) # Before(LastPass, f)}

C22_MovedCountExact ==
  passes # << >> =>
    /\ response.op = "run_tiering"
    /\ response.files_moved = Cardinality(MovedByLastPass)
    /\ response.files_moved >= 0
    /\ response.files_moved <= Cardinality(DOMAIN files_metadata)

\* a pass over two WARM records of 130 days moved the plain one to COLD and
\* left the retention-class one, forced to WARM, where it was: count 1
C22_Witness ==
  /\ passes # << >>
  /\ response.files_moved = 1
  /\ \E f, g \in DOMAIN files_metadata :
       /\ Name(f) = NamePlain /\ Name(g) = NameLegal
       /\ AgeAt(LastPass, f) = 130 /\ AgeAt(LastPass, g) = 130
       /\ Before(LastPass, f) = WARM /\ After(LastPass, f) = COLD
       /\ Before(LastPass, g) = WARM /\ After(LastPass, g) = WARM

(***************************************************************************)
(* C23  Tier is written only by the tiering pass: upload, download,        *)
(* metadata read, set-last-accessed and stats leave the tier of every      *)
(* existing record as it is, and a pass changes no field of a record but   *)
(* its tier.                                                               *)
(***************************************************************************)
\* a request other than a pass and a delete
OtherRequest ==
  /\ response'.op \in {"upload_file", "download_file", "get_file_metadata",
                       "update_last_accessed", "get_stats"}
  /\ \/ \E file_id \in FileIds, filename \in Filenames, size \in Sizes :
          upload_file(file_id, filename, size)
     \/ \E file_id \in FileIds : download_file(file_id)
     \/ \E file_id \in FileIds : get_file_metadata(file_id)
     \/ \E file_id \in FileIds, days_ago \in DaysAgo : update_last_accessed(file_id, days_ago)
     \/ get_stats

C23_TierWrittenOnlyByPass ==
  [][/\ OtherRequest
          => \A f \in DOMAIN files_metadata :
               /\ f \in DOMAIN files_metadata'
               /\ files_metadata'[f].tier = files_metadata[f].tier
     /\ (response'.op = "run_tiering" /\ run_tiering)
          => /\ DOMAIN files_metadata' = DOMAIN files_metadata
             /\ \A f \in DOMAIN files_metadata :
                  files_metadata'[f] =
                    [files_metadata[f] EXCEPT !.tier = files_metadata'[f].tier]]_vars

\* the last access of a COLD record was set with update_last_accessed, and
\* the record is still in COLD
C23_Witness ==
  /\ response.op = "update_last_accessed"
  /\ response.status = 200
  /\ files_metadata[response.file_id].tier = COLD
  /\ days_between(now, files_metadata[response.file_id].last_accessed) = 30

(***************************************************************************)
(* C24  Fixed point within two passes: of passes run in a row under a      *)
(* fixed clock, the third and every later one changes no tier and moves 0  *)
(* objects.                                                                *)
(***************************************************************************)
C24_FixedPointAfterTwoPasses ==
  \A k \in PassIndex :
    (k >= 3 /\ passes[k - 2].at = passes[k].at)
    => /\ \A f \in DOMAIN files_metadata : After(k, f) = Before(k, f)
       /\ k = Len(passes) => response.files_moved = 0

\* a record went HOT -> WARM -> COLD in two passes and a third pass at the
\* same reading of the clock left it in COLD
C24_Witness ==
  /\ Len(passes) >= 3
  /\ passes[1].at = passes[3].at
  /\ \E f \in DOMAIN files_metadata :
       /\ Before(1, f) = HOT
       /\ Before(2, f) = WARM
       /\ Before(3, f) = COLD
       /\ After(3, f) = COLD

(***************************************************************************)
(* C25  No demotion on a stale access time: whenever a step writes a       *)
(* demoted tier, the last_accessed the record has at that write is old     *)
(* enough for the move (30 days out of HOT, 90 days out of WARM); a record *)
(* accessed at the current reading of the clock, by a download handled     *)
(* before the pass, is not demoted.                                        *)
(***************************************************************************)
C25_NoDemotionOnStaleAccess ==
  [][\A f \in DOMAIN files_metadata \cap DOMAIN files_metadata' :
       /\ Rank(files_metadata'[f].tier) > Rank(files_metadata[f].tier)
            => days_between(now', files_metadata'[f].last_accessed) >=
                 (IF files_metadata[f].tier = HOT THEN 30 ELSE 90)
       /\ (DownloadThenPass(f) /\ days_between(now, files_metadata[f].last_accessed) = 0)
            => files_metadata'[f].tier = files_metadata[f].tier]_vars

\* one pass demoted a HOT record of 30 days and left in WARM a record of
\* the same registry that had just been accessed
C25_Witness ==
  /\ Len(passes) = 1
  /\ \E f, g \in DOMAIN files_metadata :
       /\ Before(1, f) = HOT /\ After(1, f) = WARM /\ AgeAt(1, f) = 30
       /\ Name(g) = NamePlain
       /\ Before(1, g) = WARM /\ After(1, g) = WARM /\ AgeAt(1, g) = 0

(***************************************************************************)
(* C26  A pass does not resurrect deleted records: a pass adds no key to   *)
(* either store; when a delete of an id and a pass are handled one right   *)
(* after the other, in either order, the id has neither metadata nor bytes *)
(* afterwards, and a metadata read of it right after is NotFound.          *)
(***************************************************************************)
\* the ids with metadata or bytes
Stored == DOMAIN files_metadata \cup DOMAIN files_content

C26_PassDoesNotResurrect ==
  [][/\ response'.op = "run_tiering"
          => /\ DOMAIN files_metadata' = DOMAIN files_metadata
             /\ files_content' = files_content
     /\ \A f \in FileIds :
          /\ (/\ response.op = "delete_file" /\ response.status = 204
              /\ response.file_id = f
              /\ response'.op = "run_tiering")
               => f \notin DOMAIN files_metadata' \cup DOMAIN files_content'
          /\ (/\ f \in Stored
              /\ response.op = "run_tiering"
              /\ response'.op = "delete_file"
              /\ delete_file(f))
               => f \notin DOMAIN files_metadata' \cup DOMAIN files_content'
          /\ (/\ f \notin Stored
              /\ response.op \in {"run_tiering", "delete_file"}
              /\ response'.op = "get_file_metadata"
              /\ get_file_metadata(f))
               => response'.status = 404]_vars

\* a pass that ran after the first object was deleted moved the other
\* object and left the deleted id without metadata and without bytes
C26_Witness ==
  /\ Len(passes) = 1
  /\ response.op = "run_tiering"
  /\ response.files_moved = 1
  /\ Stored = {"id2"}
  /\ DOMAIN passes[1].tiers = {"id2"}

====
